---- MODULE Spec2Model ----
(***************************************************************************)
(* Model of src/main.py: the batch driver main(), the submission loop      *)
(* start_document_analyses, the polling loop retrieve_analyses, and the    *)
(* pure functions summarize_textraction, compile_report, prettify_report.  *)
(*                                                                         *)
(* Documents (S3 keys) are numbered 1..n in submission order; the job the  *)
(* service starts for document d has job id d.  The Textract service is    *)
(* the environment: for every job it answers IN_PROGRESS a fixed number of *)
(* times (or for ever) and then one terminal status, chosen when the job   *)
(* is first found terminal and stable afterwards.                          *)
(***************************************************************************)
EXTENDS Integers, Sequences, FiniteSets, TLC

VARIABLES
    pc,                \* position of the run (main) or of the function under test
    keys,              \* main: the uploaded document keys, in submission order
    failAt,            \* environment: index of the key whose start request is rejected, 0 = none
    script,            \* environment: per job, how it answers polls
    i,                 \* start_document_analyses: index of the next key
    job_ids,           \* the job id list (built by start, consumed by retrieve)
    responses,         \* retrieve_analyses: the collected responses
    report,            \* main: <<>> before compile_report, <<table>> after
    saved,             \* what save_report was handed: <<>> or <<table>>
    polls,             \* history: polls made per job (saturates at PollCap)
    lastResponse,      \* history: the last answer of the service per job, <<>> or <<response>>
    collected,         \* history: job id of every element of responses, in order
    dropped,           \* history: job ids the loop let go without a result, in order
    textract_response, \* summarize_textraction under test: its argument
    output,            \* summarize_textraction under test: <<>> or <<returned dict>>
    report_input,      \* compile_report under test: its argument
    compiled,          \* compile_report under test: <<>> or <<returned table>>
    report_pretty,     \* prettify_report under test: <<>> or <<prettify_report(compiled)>>
    report_pretty2     \* prettify_report under test: <<>> or <<prettify_report(report_pretty)>>

mainVars == <<keys, failAt, script, i, job_ids, responses, report, saved,
              polls, lastResponse, collected, dropped>>
normVars == <<textract_response, output>>
reportVars == <<report_input, compiled, report_pretty, report_pretty2>>
vars == <<pc, mainVars, normVars, reportVars>>

----------------------------------------------------------------------------
(* Bounds *)

MaxDocs == 3
MaxK == 1
MaxSubDocs == 2
MaxDetections == 2
MaxRecords == 2

PollCap == MaxK + 2

----------------------------------------------------------------------------
(* Field Catalog *)

NORMALIZED_FIELDS ==
    << "INVOICE_RECEIPT_DATE", "INVOICE_RECEIPT_ID", "TAX_PAYER_ID",
       "CUSTOMER_NUMBER", "ACCOUNT_NUMBER", "VENDOR_NAME", "RECEIVER_NAME",
       "VENDOR_ADDRESS", "RECEIVER_ADDRESS", "ORDER_DATE", "DUE_DATE",
       "DELIVERY_DATE", "PO_NUMBER", "PAYMENT_TERMS", "TOTAL", "AMOUNT_DUE",
       "AMOUNT_PAID", "SUBTOTAL", "TAX", "SERVICE_CHARGE", "GRATUITY",
       "PRIOR_BALANCE", "DISCOUNT", "SHIPPING_HANDLING_CHARGE",
       "VENDOR_ABN_NUMBER", "VENDOR_GST_NUMBER", "VENDOR_PAN_NUMBER",
       "VENDOR_VAT_NUMBER", "RECEIVER_ABN_NUMBER", "RECEIVER_GST_NUMBER",
       "RECEIVER_PAN_NUMBER", "RECEIVER_VAT_NUMBER", "VENDOR_PHONE",
       "RECEIVER_PHONE", "VENDOR_URL", "ITEM", "QUANTITY", "PRICE",
       "UNIT_PRICE", "PRODUCT_CODE", "ADDRESS", "NAME", "ADDRESS_BLOCK",
       "STREET", "CITY", "STATE", "COUNTRY", "ZIP_CODE" >>

Range(s) == {s[k] : k \in DOMAIN s}

CatalogSet == Range(NORMALIZED_FIELDS)

\* the absent-value marker of a cell (None / NaN in the data frame)
None == "<None>"

----------------------------------------------------------------------------
(* Shapes of the service's data *)

\* one element of SummaryFields
Detection(type, value) ==
    [Type |-> [Text |-> type], ValueDetection |-> [Text |-> value]]

ExpenseDocument(fields) == [SummaryFields |-> fields]

Response(status, documents) ==
    [JobStatus |-> status, ExpenseDocuments |-> documents]

SeqsUpTo(S, n) == UNION {[1..k -> S] : k \in 0..n}

ReverseSeq(s) == [k \in 1..Len(s) |-> s[Len(s) + 1 - k]]

----------------------------------------------------------------------------
(* summarize_textraction *)

\* output[field_type] = field_value
DictSet(d, key, value) ==
    [f \in DOMAIN d \cup {key} |-> IF f = key THEN value ELSE d[f]]

\* the first loop: summary_fields.extend(document["SummaryFields"]) per document
RECURSIVE PoolSummaryFields(_)
PoolSummaryFields(documents) ==
    IF documents = <<>> THEN <<>>
    ELSE documents[1].SummaryFields \o PoolSummaryFields(Tail(documents))

\* the body of the second loop, for one field
SummarizeFieldUnfiltered(out, field) ==
    DictSet(out, field.Type.Text, field.ValueDetection.Text)

SummarizeFieldFirstWins(out, field) ==
    IF field.Type.Text \in CatalogSet /\ field.Type.Text \notin DOMAIN out
    THEN DictSet(out, field.Type.Text, field.ValueDetection.Text)
    ELSE out

SummarizeField(out, field) ==
    IF field.Type.Text \in CatalogSet
    THEN DictSet(out, field.Type.Text, field.ValueDetection.Text)
    ELSE out

RECURSIVE SummarizeFields(_, _)
SummarizeFields(out, summary_fields) ==
    IF summary_fields = <<>> THEN out
    ELSE SummarizeFields(SummarizeField(out, summary_fields[1]),
                         Tail(summary_fields))

summarize_textraction(response) ==
    SummarizeFields(<<>>, PoolSummaryFields(response.ExpenseDocuments))

----------------------------------------------------------------------------
(* compile_report and prettify_report.  A table is a record of its column  *)
(* sequence and its row sequence; a row maps each column to a cell.        *)

RECURSIVE SetToSeq(_)
SetToSeq(S) ==
    IF S = {} THEN <<>>
    ELSE LET x == CHOOSE x \in S : TRUE IN <<x>> \o SetToSeq(S \ {x})

\* new_row_dict = {field: None ...}; new_row_dict.update(summary)
NewRowDict(summary) ==
    [f \in CatalogSet \cup DOMAIN summary |->
        IF f \in DOMAIN summary THEN summary[f] ELSE None]

\* pd.concat([report, new_row_df], ignore_index=True)
ConcatPrepend(table, new_row_dict) ==
    LET extra   == DOMAIN new_row_dict \ Range(table.columns)
        columns == table.columns \o SetToSeq(extra)
        Widen(row) == [c \in Range(columns) |->
                          IF c \in DOMAIN row THEN row[c] ELSE None]
    IN [columns |-> columns,
        rows    |-> <<Widen(new_row_dict)>>
                    \o [k \in 1..Len(table.rows) |-> Widen(table.rows[k])]]

Concat(table, new_row_dict) ==
    LET extra   == DOMAIN new_row_dict \ Range(table.columns)
        columns == table.columns \o SetToSeq(extra)
        Widen(row) == [c \in Range(columns) |->
                          IF c \in DOMAIN row THEN row[c] ELSE None]
    IN [columns |-> columns,
        rows    |-> [k \in 1..Len(table.rows) |-> Widen(table.rows[k])]
                    \o <<Widen(new_row_dict)>>]

RECURSIVE CompileRows(_, _)
CompileRows(table, textract_responses) ==
    IF textract_responses = <<>> THEN table
    ELSE CompileRows(
            Concat(table, NewRowDict(summarize_textraction(textract_responses[1]))),
            Tail(textract_responses))

compile_report_no_columns(textract_responses) ==
    CompileRows([columns |-> <<>>, rows |-> <<>>], textract_responses)

compile_report(textract_responses) ==
    CompileRows([columns |-> NORMALIZED_FIELDS, rows |-> <<>>], textract_responses)

\* report.dropna(axis=1, how="all")
prettify_report_keep_all(table) == table

prettify_report_how_any(table) ==
    LET Kept(c) == \A k \in 1..Len(table.rows) : table.rows[k][c] # None
        columns == SelectSeq(table.columns, Kept)
    IN [columns |-> columns,
        rows    |-> [k \in 1..Len(table.rows) |->
                        [c \in Range(columns) |-> table.rows[k][c]]]]

prettify_report_first_only(table) ==
    LET Kept(c) == \E k \in 1..Len(table.rows) : table.rows[k][c] # None
        dead    == {n \in DOMAIN table.columns : ~Kept(table.columns[n])}
        first   == CHOOSE n \in dead : \A m \in dead : n <= m
        columns == IF dead = {} THEN table.columns
                   ELSE SubSeq(table.columns, 1, first - 1)
                        \o SubSeq(table.columns, first + 1, Len(table.columns))
    IN [columns |-> columns,
        rows    |-> [k \in 1..Len(table.rows) |->
                        [c \in Range(columns) |-> table.rows[k][c]]]]

prettify_report_drop_rows(table) ==
    LET Kept(c) == \E k \in 1..Len(table.rows) : table.rows[k][c] # None
        columns == SelectSeq(table.columns, Kept)
        HasValue(row) == \E c \in DOMAIN row : row[c] # None
        rows    == SelectSeq(table.rows, HasValue)
    IN [columns |-> columns,
        rows    |-> [k \in 1..Len(rows) |->
                        [c \in Range(columns) |-> rows[k][c]]]]

prettify_report(table) ==
    LET Kept(c) == \E k \in 1..Len(table.rows) : table.rows[k][c] # None
        columns == SelectSeq(table.columns, Kept)
    IN [columns |-> columns,
        rows    |-> [k \in 1..Len(table.rows) |->
                        [c \in Range(columns) |-> table.rows[k][c]]]]

----------------------------------------------------------------------------
(* The analysis service (environment) *)

Scripts ==
    {[inProgress |-> k, terminates |-> TRUE] : k \in 0..MaxK}
    \cup {[inProgress |-> 0, terminates |-> FALSE]}

RawA == <<ExpenseDocument(<<Detection("TOTAL", "12.50")>>)>>
RawC == <<ExpenseDocument(<<Detection("TOTAL", "7.00"),
                            Detection("VENDOR_NAME", "Acme")>>)>>
RawOther == <<ExpenseDocument(<<Detection("OTHER", "x")>>)>>

\* the terminal answers a job may give; "CANCELLED" stands for any status the
\* match statement does not name
TerminalResponses ==
    { Response("SUCCEEDED", RawA), Response("SUCCEEDED", RawOther),
      Response("PARTIAL_SUCCESS", RawC),
      Response("FAILED", <<>>), Response("CANCELLED", <<>>) }

\* textract_client.get_expense_analysis(JobId=job_id): the answers possible now
get_expense_analysis(job_id) ==
    IF lastResponse[job_id] # <<>>
       /\ lastResponse[job_id][1].JobStatus # "IN_PROGRESS"
    THEN {lastResponse[job_id][1]}
    ELSE IF ~script[job_id].terminates
            \/ polls[job_id] < script[job_id].inProgress
         THEN {Response("IN_PROGRESS", <<>>)}
         ELSE TerminalResponses

----------------------------------------------------------------------------
(* start_document_analyses *)

\* job_ids.append(start_document_analysis(key=key)), the start request accepted
StartDocumentAnalysis ==
    /\ pc = "start"
    /\ i <= Len(keys)
    /\ failAt # i
    /\ job_ids' = Append(job_ids, keys[i])
    /\ i' = i + 1
    /\ UNCHANGED <<pc, keys, failAt, script, responses, report, saved,
                   polls, lastResponse, collected, dropped, normVars, reportVars>>

\* the start request raises: nothing catches it, so main() ends with the error
StartDocumentAnalysisSwallowed ==
    /\ pc = "start"
    /\ i <= Len(keys)
    /\ failAt = i
    /\ i' = i + 1
    /\ UNCHANGED <<pc, keys, failAt, script, job_ids, responses, report, saved,
                   polls, lastResponse, collected, dropped, normVars, reportVars>>

StartDocumentAnalysisFails ==
    /\ pc = "start"
    /\ i <= Len(keys)
    /\ failAt = i
    /\ pc' = "error"
    /\ UNCHANGED <<mainVars, normVars, reportVars>>

\* job_ids.reverse()
ReversedJobIdsNotReversed(ids) == ids

ReversedJobIds(ids) == ReverseSeq(ids)

\* the loop is over: reverse, return, and main() calls retrieve_analyses
ReturnJobIds ==
    /\ pc = "start"
    /\ i > Len(keys)
    /\ job_ids' = ReversedJobIds(job_ids)
    /\ pc' = "poll"
    /\ UNCHANGED <<keys, failAt, script, i, responses, report, saved,
                   polls, lastResponse, collected, dropped, normVars, reportVars>>

----------------------------------------------------------------------------
(* retrieve_analyses *)

\* job_ids.pop(): the element taken and the list left
PoppedJob(ids) == ids[Len(ids)]

AfterPop(ids) == SubSeq(ids, 1, Len(ids) - 1)

\* the match statement's effect on responses
ResponsesAfterMatchNoPartial(resps, response) ==
    IF response.JobStatus = "SUCCEEDED" THEN Append(resps, response) ELSE resps

ResponsesAfterMatchInProgressKept(resps, response) ==
    IF response.JobStatus \in {"SUCCEEDED", "PARTIAL_SUCCESS", "IN_PROGRESS"}
    THEN Append(resps, response)
    ELSE resps

ResponsesAfterMatchFailedKept(resps, response) ==
    IF response.JobStatus \in {"SUCCEEDED", "PARTIAL_SUCCESS", "FAILED"}
    THEN Append(resps, response)
    ELSE resps

ResponsesAfterMatch(resps, response) ==
    CASE response.JobStatus = "SUCCEEDED"       -> Append(resps, response)
      [] response.JobStatus = "IN_PROGRESS"     -> resps
      [] response.JobStatus = "FAILED"          -> resps
      [] response.JobStatus = "PARTIAL_SUCCESS" -> Append(resps, response)
      [] OTHER                                  -> resps

\* the match statement's effect on job_ids (rest is the list after the pop)
JobIdsAfterMatchFailedRequeued(rest, job_id, response) ==
    IF response.JobStatus \in {"IN_PROGRESS", "FAILED"}
    THEN Append(rest, job_id)
    ELSE rest

JobIdsAfterMatchGiveUp(rest, job_id, response) == rest

JobIdsAfterMatchUnknownRequeued(rest, job_id, response) ==
    IF response.JobStatus \in {"SUCCEEDED", "FAILED", "PARTIAL_SUCCESS"}
    THEN rest
    ELSE Append(rest, job_id)

JobIdsAfterMatchRoundRobin(rest, job_id, response) ==
    IF response.JobStatus = "IN_PROGRESS" THEN <<job_id>> \o rest ELSE rest

JobIdsAfterMatch(rest, job_id, response) ==
    CASE response.JobStatus = "SUCCEEDED"       -> rest
      [] response.JobStatus = "IN_PROGRESS"     -> Append(rest, job_id)
      [] response.JobStatus = "FAILED"          -> rest
      [] response.JobStatus = "PARTIAL_SUCCESS" -> rest
      [] OTHER                                  -> rest

\* one iteration of `while job_ids:`
Poll ==
    /\ pc = "poll"
    /\ job_ids # <<>>
    /\ LET job_id == PoppedJob(job_ids)
           rest   == AfterPop(job_ids)
       IN \E response \in get_expense_analysis(job_id) :
            /\ responses' = ResponsesAfterMatch(responses, response)
            /\ job_ids' = JobIdsAfterMatch(rest, job_id, response)
            /\ collected' = collected
                   \o [k \in 1..(Len(responses') - Len(responses)) |-> job_id]
            /\ polls' = [polls EXCEPT ![job_id] =
                            IF @ < PollCap THEN @ + 1 ELSE @]
            /\ lastResponse' = [lastResponse EXCEPT ![job_id] = <<response>>]
            /\ dropped' = IF Len(job_ids') = Len(rest)
                              /\ Len(responses') = Len(responses)
                           THEN Append(dropped, job_id)
                           ELSE dropped
    /\ UNCHANGED <<pc, keys, failAt, script, i, report, saved, normVars,
                   reportVars>>

\* the loop condition is false: return responses to main()
ReturnResponses ==
    /\ pc = "poll"
    /\ job_ids = <<>>
    /\ pc' = "compile"
    /\ UNCHANGED <<mainVars, normVars, reportVars>>

----------------------------------------------------------------------------
(* the rest of main() *)

Compile ==
    /\ pc = "compile"
    /\ report' = <<compile_report(responses)>>
    /\ pc' = "prettify"
    /\ UNCHANGED <<keys, failAt, script, i, job_ids, responses, saved,
                   polls, lastResponse, collected, dropped, normVars, reportVars>>

Prettify ==
    /\ pc = "prettify"
    /\ report' = <<prettify_report(report[1])>>
    /\ pc' = "save"
    /\ UNCHANGED <<keys, failAt, script, i, job_ids, responses, saved,
                   polls, lastResponse, collected, dropped, normVars, reportVars>>

\* save_report(job_id, report, ...): the table is handed to persistence
Save ==
    /\ pc = "save"
    /\ saved' = report
    /\ pc' = "done"
    /\ UNCHANGED <<keys, failAt, script, i, job_ids, responses, report,
                   polls, lastResponse, collected, dropped, normVars, reportVars>>

----------------------------------------------------------------------------
(* The run of main() from the call of start_document_analyses *)

Init ==
    /\ pc = "start"
    /\ \E n \in 0..MaxDocs :
          /\ keys = [d \in 1..n |-> d]
          /\ failAt \in 0..n
          /\ script \in [1..n -> Scripts]
          /\ polls = [d \in 1..n |-> 0]
          /\ lastResponse = [d \in 1..n |-> <<>>]
    /\ i = 1
    /\ job_ids = <<>>
    /\ responses = <<>>
    /\ report = <<>>
    /\ saved = <<>>
    /\ collected = <<>>
    /\ dropped = <<>>
    /\ textract_response = Response("SUCCEEDED", <<>>)
    /\ output = <<>>
    /\ report_input = <<>>
    /\ compiled = <<>>
    /\ report_pretty = <<>>
    /\ report_pretty2 = <<>>

Next ==
    \/ StartDocumentAnalysis
    \/ StartDocumentAnalysisFails
    \/ ReturnJobIds
    \/ Poll
    \/ ReturnResponses
    \/ Compile
    \/ Prettify
    \/ Save

Spec == Init /\ [][Next]_vars

\* retrieve_analyses is a sequential loop that keeps running: an iteration that
\* is possible is taken, and so is the return once the loop condition is false
LiveSpec == Init /\ [][Next]_vars /\ WF_vars(Poll) /\ WF_vars(ReturnResponses)

----------------------------------------------------------------------------
(* summarize_textraction on arbitrary raw results *)

Labels == {"TOTAL", "VENDOR_NAME", "OTHER"}

\* every detection of a raw result carries a text of its own, so that the
\* record tells which detection gave each entry
ValueNames == << "A", "B", "C", "D", "E", "F", "G", "H", "I", "J", "K", "L",
                 "M", "N", "O", "P" >>

ValueAt(d, k) == ValueNames[(d - 1) * MaxDetections + k]

\* the sub-documents whose detections have the labels ls[d][k]
DocumentsOf(ls) ==
    [d \in DOMAIN ls |->
        ExpenseDocument([k \in DOMAIN ls[d] |->
                            Detection(ls[d][k], ValueAt(d, k))])]

RawResults ==
    {Response("SUCCEEDED", DocumentsOf(ls)) :
        ls \in SeqsUpTo(SeqsUpTo(Labels, MaxDetections), MaxSubDocs)}

InitNorm ==
    /\ pc = "summarize"
    /\ textract_response \in RawResults
    /\ output = <<>>
    /\ keys = <<>>
    /\ failAt = 0
    /\ script = <<>>
    /\ polls = <<>>
    /\ lastResponse = <<>>
    /\ i = 1
    /\ job_ids = <<>>
    /\ responses = <<>>
    /\ report = <<>>
    /\ saved = <<>>
    /\ collected = <<>>
    /\ dropped = <<>>
    /\ report_input = <<>>
    /\ compiled = <<>>
    /\ report_pretty = <<>>
    /\ report_pretty2 = <<>>

Summarize ==
    /\ pc = "summarize"
    /\ output' = <<summarize_textraction(textract_response)>>
    /\ pc' = "summarized"
    /\ UNCHANGED <<mainVars, textract_response, reportVars>>

NextNorm == Summarize

SpecNorm == InitNorm /\ [][NextNorm]_vars

----------------------------------------------------------------------------
(* compile_report and prettify_report on arbitrary lists of raw results *)

\* the raw result number r with one detection for every label of L, each with
\* a text of its own
RecordOf(r, L) ==
    Response("SUCCEEDED",
        <<ExpenseDocument(
            [k \in 1..Cardinality(L) |->
                Detection(SetToSeq(L)[k],
                          ValueNames[(r - 1) * Cardinality(Labels) + k])])>>)

ReportInputs ==
    {[r \in DOMAIN ls |-> RecordOf(r, ls[r])] :
        ls \in SeqsUpTo(SUBSET Labels, MaxRecords)}

InitReport ==
    /\ pc = "compile_report"
    /\ report_input \in ReportInputs
    /\ compiled = <<>>
    /\ report_pretty = <<>>
    /\ report_pretty2 = <<>>
    /\ textract_response = Response("SUCCEEDED", <<>>)
    /\ output = <<>>
    /\ keys = <<>>
    /\ failAt = 0
    /\ script = <<>>
    /\ polls = <<>>
    /\ lastResponse = <<>>
    /\ i = 1
    /\ job_ids = <<>>
    /\ responses = <<>>
    /\ report = <<>>
    /\ saved = <<>>
    /\ collected = <<>>
    /\ dropped = <<>>

\* report = compile_report(responses)
CompileReport ==
    /\ pc = "compile_report"
    /\ compiled' = <<compile_report(report_input)>>
    /\ pc' = "prettify_report"
    /\ UNCHANGED <<mainVars, normVars, report_input, report_pretty, report_pretty2>>

\* report_pretty = report.dropna(...): a new table, the argument is left as it is
PrettifyReport ==
    /\ pc = "prettify_report"
    /\ report_pretty' = <<prettify_report(compiled[1])>>
    /\ pc' = "prettify_again"
    /\ UNCHANGED <<mainVars, normVars, report_input, compiled, report_pretty2>>

\* prettify_report applied to its own result
PrettifyAgain ==
    /\ pc = "prettify_again"
    /\ report_pretty2' = <<prettify_report(report_pretty[1])>>
    /\ pc' = "report_done"
    /\ UNCHANGED <<mainVars, normVars, report_input, compiled, report_pretty>>

NextReport ==
    \/ CompileReport
    \/ PrettifyReport
    \/ PrettifyAgain

SpecReport == InitReport /\ [][NextReport]_vars

----------------------------------------------------------------------------
(* Vocabulary of the properties *)

Jobs == DOMAIN script

SuccessStatuses == {"SUCCEEDED", "PARTIAL_SUCCESS"}

\* the status job j reported last, "NONE" if it was never polled
LastStatus(j) ==
    IF lastResponse[j] = <<>> THEN "NONE" ELSE lastResponse[j][1].JobStatus

Count(x, s) == Cardinality({k \in DOMAIN s : s[k] = x})

\* retrieve_analyses has returned
Returned == pc \in {"compile", "prettify", "save", "done"}

EndedInSuccess == {j \in Jobs : LastStatus(j) \in SuccessStatuses}

----------------------------------------------------------------------------
(* C1 *)

\* C1: when retrieve_analyses has returned, the result list holds exactly one
\* result (the job's last answer) for every job whose last reported status
\* was SUCCEEDED or PARTIAL_SUCCESS, and none for a job whose last status was
\* FAILED or an unrecognised one.
C1_ExactlySuccessfulJobs ==
    Returned =>
        /\ Len(responses) = Len(collected)
        /\ \A j \in Jobs :
              Count(j, collected) = IF LastStatus(j) \in SuccessStatuses THEN 1 ELSE 0
        /\ \A k \in DOMAIN responses :
              /\ collected[k] \in Jobs
              /\ lastResponse[collected[k]] = <<responses[k]>>

C1_Witness ==
    /\ Returned
    /\ \E j \in Jobs : LastStatus(j) = "PARTIAL_SUCCESS"
    /\ \E j \in Jobs : LastStatus(j) = "FAILED"
    /\ \E j \in Jobs : LastStatus(j) = "CANCELLED"

----------------------------------------------------------------------------
(* C2 *)

\* C2: if every job of the batch stops answering IN_PROGRESS after finitely
\* many polls, the polling loop terminates: the pending list becomes empty
\* and retrieve_analyses returns.
C2_PollingTerminates ==
    (pc = "poll" /\ \A j \in Jobs : script[j].terminates)
        ~> (job_ids = <<>> /\ Returned)

C2_Witness ==
    /\ Returned
    /\ job_ids = <<>>
    /\ Len(keys) = MaxDocs
    /\ \A j \in Jobs : script[j].terminates /\ polls[j] = script[j].inProgress + 1
    /\ \E j \in Jobs : script[j].inProgress > 0

----------------------------------------------------------------------------
(* C3 *)

\* C3: a job that answers IN_PROGRESS K times and then SUCCEEDED is in the
\* results exactly once; while it answers IN_PROGRESS it is not in the
\* results, and no IN_PROGRESS answer is ever an element of the results.
C3_RequeuedJobCollectedOnce ==
    /\ \A j \in Jobs :
          /\ LastStatus(j) = "IN_PROGRESS" => Count(j, collected) = 0
          /\ LastStatus(j) = "SUCCEEDED" => Count(j, collected) = 1
    /\ \A k \in DOMAIN responses : responses[k].JobStatus # "IN_PROGRESS"
    /\ Len(responses) = Len(collected)

C3_Witness ==
    /\ Returned
    /\ \E j \in Jobs :
          /\ script[j].inProgress = MaxK
          /\ polls[j] = MaxK + 1
          /\ LastStatus(j) = "SUCCEEDED"
          /\ Count(j, collected) = 1

----------------------------------------------------------------------------
(* C4 *)

\* C4: the table main() builds, after compile_report and after
\* prettify_report, and the table it saves, have exactly as many rows as
\* there are jobs that ended SUCCEEDED or PARTIAL_SUCCESS; a FAILED or unknown
\* job adds no row.
C4_OneRowPerSuccessfulJob ==
    /\ pc \in {"prettify", "save", "done"} =>
          Len(report[1].rows) = Cardinality(EndedInSuccess)
    /\ pc = "done" => Len(saved[1].rows) = Cardinality(EndedInSuccess)

C4_Witness ==
    /\ pc = "done"
    /\ \E j \in Jobs : LastStatus(j) = "FAILED"
    /\ \E j \in Jobs : LastStatus(j) = "CANCELLED"
    /\ \E j \in Jobs : lastResponse[j] = <<Response("SUCCEEDED", RawOther)>>
    /\ Len(saved[1].rows) = 1

----------------------------------------------------------------------------
(* C5 *)

\* C5: the results are in submission order (job ids are numbered in
\* submission order), at every moment of the loop and on return, and row k of
\* the compiled report is the row of the k-th collected job.
C5_SubmissionOrder ==
    /\ \A k, l \in DOMAIN collected : k < l => collected[k] < collected[l]
    /\ pc = "prettify" =>
          /\ Len(report[1].rows) = Len(collected)
          /\ \A k \in DOMAIN collected :
                report[1].rows[k] =
                    NewRowDict(summarize_textraction(lastResponse[collected[k]][1]))

C5_Witness ==
    /\ pc = "prettify"
    /\ Len(collected) = MaxDocs
    /\ polls[collected[1]] > polls[collected[2]]
    /\ lastResponse[collected[1]] # lastResponse[collected[2]]

----------------------------------------------------------------------------
(* C6 *)

\* the three-document scenario of the specification: A, B, C are jobs 1, 2, 3
Scenario ==
    /\ Len(keys) = 3
    /\ failAt = 0
    /\ script[1] = [inProgress |-> 0, terminates |-> TRUE]
    /\ lastResponse[1] = <<Response("SUCCEEDED", RawA)>>
    /\ script[2] = [inProgress |-> 1, terminates |-> TRUE]
    /\ lastResponse[2] = <<Response("FAILED", <<>>)>>
    /\ script[3] = [inProgress |-> 0, terminates |-> TRUE]
    /\ lastResponse[3] = <<Response("PARTIAL_SUCCESS", RawC)>>

ScenarioTable ==
    [columns |-> <<"VENDOR_NAME", "TOTAL">>,
     rows    |-> << [c \in {"TOTAL", "VENDOR_NAME"} |->
                        IF c = "TOTAL" THEN "12.50" ELSE None],
                    [c \in {"TOTAL", "VENDOR_NAME"} |->
                        IF c = "TOTAL" THEN "7.00" ELSE "Acme"] >>]

\* C6: in the scenario retrieve_analyses returns the two results A then C,
\* and compile_report followed by prettify_report gives the two-row table with
\* columns {TOTAL, VENDOR_NAME}: row 1 TOTAL 12.50 and VENDOR_NAME absent,
\* row 2 TOTAL 7.00 and VENDOR_NAME Acme.
C6_Scenario ==
    Scenario =>
        /\ Returned =>
              responses = << Response("SUCCEEDED", RawA),
                             Response("PARTIAL_SUCCESS", RawC) >>
        /\ pc \in {"save", "done"} =>
              /\ Range(report[1].columns) = {"TOTAL", "VENDOR_NAME"}
              /\ report[1] = ScenarioTable

C6_Witness == Scenario /\ pc = "save" /\ polls = <<1, 2, 1>>

----------------------------------------------------------------------------
(* C7 *)

\* C7: if a job never stops answering IN_PROGRESS, retrieve_analyses never
\* returns; however often that job has been polled, it is back in the
\* pending list.
C7_StuckJobNeverReturns ==
    \A j \in Jobs :
        ~script[j].terminates =>
            /\ ~Returned
            /\ (pc = "poll" /\ polls[j] > 0) =>
                  (job_ids # <<>> /\ PoppedJob(job_ids) = j)

C7_Witness ==
    /\ pc = "poll"
    /\ \E j \in Jobs :
          /\ ~script[j].terminates
          /\ polls[j] = PollCap
          /\ j > 1
          /\ Len(job_ids) > 1

----------------------------------------------------------------------------
(* C8 *)

\* C8: if the start request of one document is rejected, the run never gets
\* past submission: no job is polled, no result is collected, no table is
\* compiled and nothing is saved, also for the jobs already started.
C8_SubmissionFailureIsFatal ==
    failAt # 0 =>
        /\ pc \in {"start", "error"}
        /\ i <= failAt
        /\ \A j \in Jobs : polls[j] = 0 /\ lastResponse[j] = <<>>
        /\ responses = <<>>
        /\ report = <<>>
        /\ saved = <<>>

C8_Witness ==
    /\ pc = "error"
    /\ failAt = MaxDocs
    /\ Len(job_ids) = MaxDocs - 1

----------------------------------------------------------------------------
(* C9 *)

\* the places <<sub-document, index>> of the detections labelled f
PlacesOf(f, documents) ==
    UNION { { <<d, k>> : k \in {k \in DOMAIN documents[d].SummaryFields :
                                   documents[d].SummaryFields[k].Type.Text = f} }
            : d \in DOMAIN documents }

Later(p, q) == p[1] > q[1] \/ (p[1] = q[1] /\ p[2] > q[2])

LastPlace(P) == CHOOSE p \in P : \A q \in P : q = p \/ Later(p, q)

\* C9: for each canonical field, the record returned by summarize_textraction
\* holds the value of the last detection with that label, the sub-documents
\* taken in order and the detections of each in order; a canonical field with
\* no detection has no entry.
C9_LastDetectionWins ==
    pc = "summarized" =>
        \A f \in CatalogSet :
            LET documents == textract_response.ExpenseDocuments
                P == PlacesOf(f, documents)
            IN IF P = {} THEN f \notin DOMAIN output[1]
               ELSE /\ f \in DOMAIN output[1]
                    /\ output[1][f] =
                          documents[LastPlace(P)[1]]
                              .SummaryFields[LastPlace(P)[2]].ValueDetection.Text

C9_Witness ==
    /\ pc = "summarized"
    /\ Len(textract_response.ExpenseDocuments) = 2
    /\ textract_response.ExpenseDocuments[1].SummaryFields
          = <<Detection("TOTAL", ValueAt(1, 1)), Detection("TOTAL", ValueAt(1, 2))>>
    /\ textract_response.ExpenseDocuments[2].SummaryFields
          = <<Detection("TOTAL", ValueAt(2, 1)), Detection("VENDOR_NAME", ValueAt(2, 2))>>
    /\ output[1]["TOTAL"] = ValueAt(2, 1)

----------------------------------------------------------------------------
(* C10 *)

\* the raw result without its detections whose label is not in the catalog
WithoutForeignDetections(response) ==
    LET InCatalog(field) == field.Type.Text \in CatalogSet
    IN Response(response.JobStatus,
                [d \in DOMAIN response.ExpenseDocuments |->
                    ExpenseDocument(
                        SelectSeq(response.ExpenseDocuments[d].SummaryFields,
                                  InCatalog))])

\* C10: every key of the record returned by summarize_textraction is in the
\* Field Catalog and is the label of a detection of the input, and the record
\* is the one the input gives once its detections with a label outside the
\* catalog are removed.
C10_OnlyCatalogKeys ==
    pc = "summarized" =>
        /\ DOMAIN output[1] \subseteq CatalogSet
        /\ \A f \in DOMAIN output[1] :
              PlacesOf(f, textract_response.ExpenseDocuments) # {}
        /\ output[1] = summarize_textraction(WithoutForeignDetections(textract_response))

C10_Witness ==
    /\ pc = "summarized"
    /\ Len(textract_response.ExpenseDocuments) = 1
    /\ textract_response.ExpenseDocuments[1].SummaryFields
          = <<Detection("TOTAL", ValueAt(1, 1)), Detection("OTHER", ValueAt(1, 2))>>
    /\ DOMAIN output[1] = {"TOTAL"}

----------------------------------------------------------------------------
(* Vocabulary of the report properties *)

Compiled == pc \in {"prettify_report", "prettify_again", "report_done"}

Prettified == pc \in {"prettify_again", "report_done"}

\* column c of table t holds a value in some row
HasValueIn(t, c) == \E k \in DOMAIN t.rows : t.rows[k][c] # None

\* every row of t has exactly the columns of t
RowsMatchColumns(t) == \A k \in DOMAIN t.rows : DOMAIN t.rows[k] = Range(t.columns)

NoDuplicates(s) == \A m, n \in DOMAIN s : s[m] = s[n] => m = n

----------------------------------------------------------------------------
(* C11 *)

\* C11: in a table made by compile_report every row has exactly the columns
\* of the Field Catalog (and so has the table, each column once); in a table
\* made by prettify_report, of the compiled table or of a prettified one, all
\* rows have one and the same column set, the table's, a subset of the catalog.
C11_RowShape ==
    /\ Compiled =>
          /\ Range(compiled[1].columns) = CatalogSet
          /\ NoDuplicates(compiled[1].columns)
          /\ \A k \in DOMAIN compiled[1].rows : DOMAIN compiled[1].rows[k] = CatalogSet
    /\ Prettified =>
          /\ Range(report_pretty[1].columns) \subseteq CatalogSet
          /\ RowsMatchColumns(report_pretty[1])
    /\ pc = "report_done" =>
          /\ Range(report_pretty2[1].columns) \subseteq CatalogSet
          /\ RowsMatchColumns(report_pretty2[1])

C11_Witness ==
    /\ pc = "report_done"
    /\ Len(compiled[1].rows) = MaxRecords
    /\ Range(report_pretty[1].columns) = {"TOTAL", "VENDOR_NAME"}
    /\ \E r \in DOMAIN report_input :
          PlacesOf("OTHER", report_input[r].ExpenseDocuments) # {}

----------------------------------------------------------------------------
(* C12 *)

\* C12: prettify_report keeps a column if and only if some row holds a value
\* for it: the columns absent in every row are removed, all of them when the
\* table has no row, and a kept column is in every row, with the value the
\* row had or the absent marker.
C12_KeptIffSomeValue ==
    Prettified =>
        LET t == compiled[1]
            p == report_pretty[1]
        IN /\ Range(p.columns) = {c \in Range(t.columns) : HasValueIn(t, c)}
           /\ Len(t.rows) = 0 => p.columns = <<>>
           /\ Len(p.rows) = Len(t.rows)
           /\ \A k \in DOMAIN p.rows : \A c \in Range(p.columns) :
                 c \in DOMAIN p.rows[k] /\ p.rows[k][c] = t.rows[k][c]

C12_Witness ==
    /\ Prettified
    /\ Len(compiled[1].rows) = 2
    /\ compiled[1].rows[1]["TOTAL"] # None
    /\ compiled[1].rows[2]["TOTAL"] = None
    /\ "TOTAL" \in Range(report_pretty[1].columns)
    /\ report_pretty[1].rows[2]["TOTAL"] = None
    /\ "TAX" \notin Range(report_pretty[1].columns)

----------------------------------------------------------------------------
(* C13 *)

\* C13: prettify_report applied to a prettified table gives that table back.
C13_PrettifyIdempotent ==
    pc = "report_done" => report_pretty2 = report_pretty

C13_Witness ==
    /\ pc = "report_done"
    /\ Len(report_pretty[1].rows) = MaxRecords
    /\ Len(report_pretty[1].columns) = 1
    /\ \E k \in DOMAIN report_pretty[1].rows :
          report_pretty[1].rows[k][report_pretty[1].columns[1]] = None

----------------------------------------------------------------------------
(* C15 *)

\* C15: compile_report makes one row per input result, in input order: row k
\* holds for every catalog field the value the summary of result k gives it,
\* and the absent marker where the summary has none; a result without any
\* catalog detection gives a row of absent markers.
C15_OneRowPerRecordInOrder ==
    Compiled =>
        /\ Len(compiled[1].rows) = Len(report_input)
        /\ \A k \in DOMAIN report_input :
              LET summary == summarize_textraction(report_input[k])
              IN \A f \in CatalogSet :
                    /\ f \in DOMAIN compiled[1].rows[k]
                    /\ compiled[1].rows[k][f] =
                          IF f \in DOMAIN summary THEN summary[f] ELSE None

C15_Witness ==
    /\ Compiled
    /\ Len(report_input) = 2
    /\ summarize_textraction(report_input[1]) = <<>>
    /\ PlacesOf("OTHER", report_input[1].ExpenseDocuments) # {}
    /\ \A f \in CatalogSet : compiled[1].rows[1][f] = None
    /\ compiled[1].rows[2]["TOTAL"] # None

----------------------------------------------------------------------------
(* C16 *)

\* s is t without some of its elements, the others in the order of t
IsSubSeqOf(s, t) ==
    LET In(x) == x \in Range(s) IN NoDuplicates(s) /\ s = SelectSeq(t, In)

\* C16: prettify_report changes the column set only: the rows are as many and
\* in the same order, the kept columns are in the order they had, every cell
\* of a kept column has the value it had, and the table given to it is still
\* the one compile_report made.
C16_PrettifyOnlyProjects ==
    Prettified =>
        LET t == compiled[1]
            p == report_pretty[1]
        IN /\ Len(p.rows) = Len(t.rows)
           /\ IsSubSeqOf(p.columns, t.columns)
           /\ \A k \in DOMAIN t.rows :
                 p.rows[k] = [c \in Range(p.columns) |-> t.rows[k][c]]
           /\ t = compile_report(report_input)

C16_Witness ==
    /\ Prettified
    /\ Len(compiled[1].rows) = MaxRecords
    /\ report_pretty[1].columns = <<"VENDOR_NAME", "TOTAL">>
    /\ \E k \in DOMAIN compiled[1].rows :
          \A c \in CatalogSet : compiled[1].rows[k][c] = None

----------------------------------------------------------------------------
(* C14 *)

\* job j has reported a status other than IN_PROGRESS
Terminal(j) == LastStatus(j) \notin {"NONE", "IN_PROGRESS"}

\* C14: a job that has reported a terminal status (SUCCEEDED, PARTIAL_SUCCESS,
\* FAILED or an unrecognised one) is not in the pending list any more and has
\* been polled exactly once more than it answered IN_PROGRESS, so never since;
\* a job that is in the pending list after a poll answered IN_PROGRESS last.
C14_TerminalJobsLeaveForGood ==
    \A j \in Jobs :
        /\ Terminal(j) =>
              /\ j \notin Range(job_ids)
              /\ polls[j] = script[j].inProgress + 1
        /\ (j \in Range(job_ids) /\ polls[j] > 0) => LastStatus(j) = "IN_PROGRESS"

C14_Witness ==
    /\ pc = "poll"
    /\ Len(keys) = 3
    /\ LastStatus(1) = "CANCELLED"
    /\ polls[1] = MaxK + 1
    /\ LastStatus(2) = "FAILED"
    /\ LastStatus(3) = "IN_PROGRESS"
    /\ job_ids = <<3>>

----------------------------------------------------------------------------
(* C17 *)

\* C17: start_document_analyses returns one job id per key, and the first job
\* started is the first element of the list it returns.
C17_FirstStartedIsFirstInList ==
    (pc = "poll" /\ \A j \in Jobs : polls[j] = 0) =>
        /\ Len(job_ids) = Len(keys)
        /\ \A d \in DOMAIN keys : Count(keys[d], job_ids) = 1
        /\ job_ids # <<>> => job_ids[1] = keys[1]

----------------------------------------------------------------------------
(* C18 *)

\* C18: while the loop runs, a job whose last answer was IN_PROGRESS is the
\* tail of the pending list, the element the next iteration pops and polls;
\* and behind a job that answers IN_PROGRESS for ever no job submitted later
\* is ever polled or collected.
C18_HeadOfLineBlocking ==
    pc = "poll" =>
        \A j \in Jobs :
            /\ LastStatus(j) = "IN_PROGRESS" =>
                  (job_ids # <<>> /\ PoppedJob(job_ids) = j)
            /\ ~script[j].terminates =>
                  \A l \in Jobs :
                      l > j => (polls[l] = 0 /\ Count(l, collected) = 0
                                /\ l \in Range(job_ids))

C18_Witness ==
    /\ pc = "poll"
    /\ Len(keys) = 3
    /\ Count(1, collected) = 1
    /\ ~script[2].terminates
    /\ polls[2] = PollCap
    /\ script[3].terminates
    /\ polls[3] = 0

----------------------------------------------------------------------------
(* C19 *)

\* C19: at every iteration of the loop each job passed in is in exactly one
\* of the pending list, the results and the dropped jobs, and in it once, so
\* the three sizes add up to the number of jobs; when retrieve_analyses has
\* returned, the list it was given is empty.
C19_JobConservation ==
    /\ pc = "poll" =>
          /\ \A j \in Jobs :
                Count(j, job_ids) + Count(j, collected) + Count(j, dropped) = 1
          /\ Len(job_ids) + Len(responses) + Len(dropped) = Len(keys)
    /\ Returned => job_ids = <<>>

C19_Witness ==
    /\ pc = "poll"
    /\ Len(keys) = MaxDocs
    /\ Len(job_ids) = 1
    /\ Len(responses) = 1
    /\ Len(dropped) = 1
    /\ polls[PoppedJob(job_ids)] > 0

====
